---- MODULE Spec2Model ----
(***************************************************************************)
(* A model of the image-processor service (the-second-city/faceclaimer):   *)
(* the path confinement check (checks.AbsPath), the WebP store             *)
(* (convert.SaveWebP), the empty-directory pruning (routes.cleanEmptyDirs) *)
(* and the three HTTP handlers of routes.go, over a small file system.     *)
(*                                                                         *)
(* Strings are sequences of one-character strings, so that the prefix and  *)
(* suffix tests of the code are made on characters as the code makes them. *)
(***************************************************************************)
EXTENDS Integers, Sequences, FiniteSets, TLC

VARIABLES
    fs,      \* the file system: clean absolute path -> [dir, data]
    last,    \* the last call or request, its inputs, its result and the fs before it
    nextId,  \* the counter of primitive.NewObjectID
    procs    \* the requests served at the same time: id -> position and locals

vars == <<fs, last, nextId, procs>>

(***************************************************************************)
(* Strings                                                                 *)
(***************************************************************************)
Separator == "/"

Rep(c, n) == [i \in 1..n |-> c]

HasPrefix(s, prefix) ==
    /\ Len(prefix) <= Len(s)
    /\ SubSeq(s, 1, Len(prefix)) = prefix

HasSuffix(s, suffix) ==
    /\ Len(suffix) <= Len(s)
    /\ SubSeq(s, Len(s) - Len(suffix) + 1, Len(s)) = suffix

TrimPrefix(s, prefix) ==
    IF HasPrefix(s, prefix) THEN SubSeq(s, Len(prefix) + 1, Len(s)) ELSE s

\* strings.Split(s, "/"): the pieces between separators, empty pieces kept
Split(s) ==
    LET cuts == <<0>>
                \o SelectSeq([i \in 1..Len(s) |-> i], LAMBDA i : s[i] = Separator)
                \o <<Len(s) + 1>>
    IN  [k \in 1..(Len(cuts) - 1) |-> SubSeq(s, cuts[k] + 1, cuts[k + 1] - 1)]

\* strings.Join(elems, sep)
RECURSIVE StringsJoin(_, _)
StringsJoin(elems, sep) ==
    IF elems = <<>> THEN <<>>
    ELSE IF Len(elems) = 1 THEN elems[1]
    ELSE elems[1] \o sep \o StringsJoin(Tail(elems), sep)

(***************************************************************************)
(* path/filepath (unix): Clean, Join, IsAbs, Abs, Dir, Base                *)
(***************************************************************************)
Dot == <<".">>
DotDot == <<".", ".">>

\* the working directory of the process, which filepath.Abs joins in front
\* of a relative path
Cwd == <<"/", "e">>

\* the element loop of filepath.Clean: empty elements and "." are dropped,
\* ".." removes the element before it when there is one to remove, is
\* dropped at the root and is kept in front of a relative path
RECURSIVE CleanSegs(_, _, _)
CleanSegs(segs, out, rooted) ==
    IF segs = <<>> THEN out
    ELSE LET h == Head(segs)
             t == Tail(segs)
         IN  IF h = <<>> \/ h = Dot THEN CleanSegs(t, out, rooted)
             ELSE IF h = DotDot
             THEN IF out # <<>> /\ out[Len(out)] # DotDot
                  THEN CleanSegs(t, SubSeq(out, 1, Len(out) - 1), rooted)
                  ELSE IF rooted THEN CleanSegs(t, out, rooted)
                  ELSE CleanSegs(t, Append(out, DotDot), rooted)
             ELSE CleanSegs(t, Append(out, h), rooted)

Clean(path) ==
    IF path = <<>> THEN Dot
    ELSE LET rooted == path[1] = Separator
             segs == CleanSegs(Split(path), <<>>, rooted)
         IN  IF rooted THEN <<Separator>> \o StringsJoin(segs, <<Separator>>)
             ELSE IF segs = <<>> THEN Dot
             ELSE StringsJoin(segs, <<Separator>>)

\* filepath.Join: the elements from the first non-empty one on, joined with
\* the separator and cleaned; the empty string when all are empty
RECURSIVE Join(_)
Join(elem) ==
    IF elem = <<>> THEN <<>>
    ELSE IF Head(elem) # <<>> THEN Clean(StringsJoin(elem, <<Separator>>))
    ELSE Join(Tail(elem))

IsAbs(path) == path # <<>> /\ path[1] = Separator

\* filepath.Abs: an absolute path is cleaned, a relative one is joined to
\* the working directory
Abs(path) == IF IsAbs(path) THEN Clean(path) ELSE Join(<<Cwd, path>>)

\* filepath.Dir of a clean path
Dir(path) ==
    LET segs == Split(path)
    IN  Clean(StringsJoin(SubSeq(segs, 1, Len(segs) - 1), <<Separator>>)
              \o (IF IsAbs(path) /\ Len(segs) <= 2 THEN <<Separator>> ELSE <<>>))

\* the last element of a clean path
Base(path) == LET segs == Split(path) IN segs[Len(segs)]

(***************************************************************************)
(* checks.AbsPath                                                          *)
(***************************************************************************)
\* AbsPath with the separator not appended to the two sides of the prefix
\* test: a plain string prefix test
AbsPath_plainPrefix(base, path) ==
    LET absBase == Abs(base)
        fileLoc == Join(<<base, path>>)
        absPath == Abs(fileLoc)
    IN  IF ~HasPrefix(absPath, absBase)
        THEN [err |-> TRUE, path |-> <<>>]
        ELSE [err |-> FALSE, path |-> absPath]

AbsPath(base, path) ==
    LET absBase0 == Abs(base)
        fileLoc == Join(<<base, path>>)
        absPath == Abs(fileLoc)
        absBase == IF ~HasSuffix(absBase0, <<Separator>>)
                   THEN absBase0 \o <<Separator>>
                   ELSE absBase0
    IN  IF ~HasPrefix(absPath \o <<Separator>>, absBase)
        THEN [err |-> TRUE, path |-> <<>>]
        ELSE [err |-> FALSE, path |-> absPath]

(***************************************************************************)
(* The file system.  fs maps each existing clean absolute path to what is  *)
(* there: a directory, or a file and its bytes.  The os calls take the     *)
(* file system and return the new one with the error they report.          *)
(***************************************************************************)
NoBytes == [kind |-> "none", img |-> "", q |-> 0]

DirEntry == [dir |-> TRUE, data |-> NoBytes]

FileEntry(data) == [dir |-> FALSE, data |-> data]

\* p with the separator that ends it as a directory prefix
AsPrefix(p) == IF HasSuffix(p, <<Separator>>) THEN p ELSE p \o <<Separator>>

\* q lies strictly beneath p
Under(q, p) == HasPrefix(q, AsPrefix(p)) /\ Len(q) > Len(AsPrefix(p))

\* q is an entry of the directory p
ChildOf(q, p) ==
    /\ Under(q, p)
    /\ \A i \in (Len(AsPrefix(p)) + 1)..Len(q) : q[i] # Separator

Children(f, p) == {q \in DOMAIN f : ChildOf(q, p)}

\* the files at p or beneath it
FilesIn(f, p) == {q \in DOMAIN f : ~f[q].dir /\ (q = p \/ Under(q, p))}

\* the order of the bytes of the names this model uses
CharOrder ==
    <<"-", ".", "0", "1", "2", "3", "4", "5", "6", "7", "8", "9",
      "A", "B", "F", "a", "b", "c", "d", "e", "f", "g", "i", "p", "r", "w",
      "x", "y", "z">>

Ord(c) == CHOOSE i \in 1..Len(CharOrder) : CharOrder[i] = c

RECURSIVE Less(_, _)
Less(a, b) ==
    IF a = <<>> THEN b # <<>>
    ELSE IF b = <<>> THEN FALSE
    ELSE IF Head(a) = Head(b) THEN Less(Tail(a), Tail(b))
    ELSE Ord(Head(a)) < Ord(Head(b))

RECURSIVE SortNames(_)
SortNames(S) ==
    IF S = {} THEN <<>>
    ELSE LET m == CHOOSE x \in S : \A y \in S \ {x} : Less(x, y)
         IN  <<m>> \o SortNames(S \ {m})

\* os.Stat(path) returns no error
PathExists(f, path) == Abs(path) \in DOMAIN f

\* os.ReadDir: the entries of a directory sorted by file name; an error
\* when the path does not exist or is no directory
ReadDir(f, path) ==
    LET p == Abs(path)
    IN  IF p \notin DOMAIN f \/ ~f[p].dir
        THEN [err |-> TRUE, entries |-> <<>>]
        ELSE LET names == SortNames({Base(q) : q \in Children(f, p)})
             IN  [err |-> FALSE,
                  entries |-> [i \in 1..Len(names) |->
                      [name |-> names[i],
                       isDir |-> f[Join(<<p, names[i]>>)].dir]]]

Without(f, gone) == [q \in DOMAIN f \ gone |-> f[q]]

\* os.Remove: removes a file or an empty directory
Remove(f, path) ==
    LET p == Abs(path)
    IN  IF p \notin DOMAIN f \/ p = <<Separator>>
        THEN [fs |-> f, err |-> TRUE]
        ELSE IF f[p].dir /\ Children(f, p) # {}
        THEN [fs |-> f, err |-> TRUE]
        ELSE [fs |-> Without(f, {p}), err |-> FALSE]

\* os.RemoveAll: removes the path and all beneath it; no error when the
\* path does not exist
RemoveAll(f, path) ==
    LET p == Abs(path)
    IN  IF p = <<Separator>> THEN [fs |-> f, err |-> TRUE]
        ELSE [fs |-> Without(f, {q \in DOMAIN f : q = p \/ Under(q, p)}),
              err |-> FALSE]

\* the clean absolute path p and the directories above it
Ancestors(p) ==
    {<<Separator>>} \cup
    {SubSeq(p, 1, i) : i \in {j \in 2..Len(p) : j = Len(p) \/ p[j + 1] = Separator}}

\* os.MkdirAll: creates the directory and the missing parents; an error
\* when the path or one of its parents is a file
MkdirAllAbs(f, p) ==
    IF \E q \in Ancestors(p) : q \in DOMAIN f /\ ~f[q].dir
    THEN [fs |-> f, err |-> TRUE]
    ELSE [fs |-> [q \in DOMAIN f \cup Ancestors(p) |->
                     IF q \in DOMAIN f THEN f[q] ELSE DirEntry],
          err |-> FALSE]

MkdirAll(f, path) == MkdirAllAbs(f, Abs(path))

\* os.Create: creates the file, or truncates the one that is there; an
\* error when the parent is no directory or the path is a directory
Create(f, path) ==
    LET p == Abs(path)
    IN  IF \/ Dir(p) \notin DOMAIN f
           \/ ~f[Dir(p)].dir
           \/ (p \in DOMAIN f /\ f[p].dir)
        THEN [fs |-> f, err |-> TRUE]
        ELSE [fs |-> [q \in DOMAIN f \cup {p} |->
                         IF q = p THEN FileEntry(NoBytes) ELSE f[q]],
              err |-> FALSE]

\* the bytes written to an open file
Write(f, path, data) ==
    [f EXCEPT ![Abs(path)] = FileEntry(data)]

(***************************************************************************)
(* routes.cleanEmptyDirs                                                   *)
(***************************************************************************)
RECURSIVE cleanEmptyDirs(_, _)
RECURSIVE cleanLoop(_, _, _)

\* cleanLoop that does not descend: a directory is removed when it is empty
\* as it stands, and its subdirectories are not cleaned
cleanLoop_noDescent(f, baseDir, entries) ==
    IF entries = <<>> THEN [fs |-> f, err |-> FALSE]
    ELSE LET entry == Head(entries)
             fullPath == Join(<<baseDir, entry.name>>)
         IN  IF ~entry.isDir THEN cleanLoop(f, baseDir, Tail(entries))
             ELSE LET subEntries == ReadDir(f, fullPath)
                  IN  IF subEntries.err THEN [fs |-> f, err |-> TRUE]
                      ELSE IF Len(subEntries.entries) = 0
                      THEN LET rm == Remove(f, fullPath)
                           IN  IF rm.err THEN rm
                               ELSE cleanLoop(rm.fs, baseDir, Tail(entries))
                      ELSE cleanLoop(f, baseDir, Tail(entries))

\* cleanLoop that lists a directory before it cleans it, and decides on
\* that listing whether to remove it
cleanLoop_staleListing(f, baseDir, entries) ==
    IF entries = <<>> THEN [fs |-> f, err |-> FALSE]
    ELSE LET entry == Head(entries)
             fullPath == Join(<<baseDir, entry.name>>)
         IN  IF ~entry.isDir THEN cleanLoop(f, baseDir, Tail(entries))
             ELSE LET subEntries == ReadDir(f, fullPath)
                      sub == cleanEmptyDirs(f, fullPath)
                  IN  IF sub.err THEN sub
                      ELSE IF subEntries.err
                      THEN [fs |-> sub.fs, err |-> TRUE]
                      ELSE IF Len(subEntries.entries) = 0
                      THEN LET rm == Remove(sub.fs, fullPath)
                           IN  IF rm.err THEN rm
                               ELSE cleanLoop(rm.fs, baseDir, Tail(entries))
                      ELSE cleanLoop(sub.fs, baseDir, Tail(entries))

\* cleanEmptyDirs that also removes baseDir when the loop left it empty
cleanEmptyDirs_removesBase(f, baseDir) ==
    LET listed == ReadDir(f, baseDir)
    IN  IF listed.err THEN [fs |-> f, err |-> TRUE]
        ELSE LET done == cleanLoop(f, baseDir, listed.entries)
             IN  IF ~done.err /\ Children(done.fs, Abs(baseDir)) = {}
                 THEN Remove(done.fs, baseDir)
                 ELSE done

\* the loop over the entries that were listed when the call started
cleanLoop(f, baseDir, entries) ==
    IF entries = <<>> THEN [fs |-> f, err |-> FALSE]
    ELSE LET entry == Head(entries)
             fullPath == Join(<<baseDir, entry.name>>)
         IN  IF ~entry.isDir THEN cleanLoop(f, baseDir, Tail(entries))
             ELSE LET sub == cleanEmptyDirs(f, fullPath)
                  IN  IF sub.err THEN sub
                      ELSE LET subEntries == ReadDir(sub.fs, fullPath)
                           IN  IF subEntries.err
                               THEN [fs |-> sub.fs, err |-> TRUE]
                               ELSE IF Len(subEntries.entries) = 0
                               THEN LET rm == Remove(sub.fs, fullPath)
                                    IN  IF rm.err THEN rm
                                        ELSE cleanLoop(rm.fs, baseDir,
                                                       Tail(entries))
                               ELSE cleanLoop(sub.fs, baseDir, Tail(entries))

cleanEmptyDirs(f, baseDir) ==
    LET listed == ReadDir(f, baseDir)
    IN  IF listed.err THEN [fs |-> f, err |-> TRUE]
        ELSE cleanLoop(f, baseDir, listed.entries)

(***************************************************************************)
(* The specification of the calls of checks.AbsPath: one call, with a base *)
(* and a path drawn from bounded sets.                                     *)
(***************************************************************************)
MaxPathLen == 5

PathAlphabet == {"/", ".", "i", "e"}

PathInputs == UNION {[1..k -> PathAlphabet] : k \in 0..MaxPathLen}

BaseInputs ==
    { <<"/", "i">>, <<"/">>, <<"i">>, <<>>, <<".">>, <<"/", "i", "/">>,
      <<"/", "e", "/", "i">>, <<".", ".">>, <<"i", "/", "e">>,
      <<"/", "i", "/", ".", ".", "/", "i">> }

\* the file system of this model before any request: the root, the working
\* directory and nothing else
EmptyFS == [p \in {<<Separator>>, Cwd} |-> DirEntry]

InitPath ==
    /\ fs = EmptyFS
    /\ last = [op |-> "init"]
    /\ nextId = 0
    /\ procs = <<>>

CallAbsPath ==
    /\ last.op = "init"
    /\ \E base \in BaseInputs, path \in PathInputs :
           last' = [op |-> "AbsPath", base |-> base, path |-> path,
                    res |-> AbsPath(base, path)]
    /\ UNCHANGED <<fs, nextId, procs>>

NextPath == CallAbsPath

SpecPath == InitPath /\ [][NextPath]_vars

\* What a path names, told from its elements alone: the elements of the
\* working directory for a relative path, then each element in turn, where
\* "." and the empty element name the same place and ".." its parent.
RECURSIVE Walk(_, _)
Walk(at, segs) ==
    IF segs = <<>> THEN at
    ELSE LET h == Head(segs)
         IN  IF h = <<>> \/ h = Dot THEN Walk(at, Tail(segs))
             ELSE IF h = DotDot
             THEN Walk(IF at = <<>> THEN at ELSE SubSeq(at, 1, Len(at) - 1),
                       Tail(segs))
             ELSE Walk(Append(at, h), Tail(segs))

Place(path) ==
    IF IsAbs(path) THEN Walk(<<>>, Split(path))
    ELSE Walk(Walk(<<>>, Split(Cwd)), Split(path))

IsPrefixSeq(p, s) == Len(p) <= Len(s) /\ SubSeq(s, 1, Len(p)) = p

\* C1: whatever the base and the path, checks.AbsPath returns an error or an
\* absolute path whose place lies in the base's place (never a path outside
\* the base, a sibling whose name starts with the base's name included).
C1_AbsPathConfined ==
    (last.op = "AbsPath" /\ ~last.res.err) =>
        /\ IsAbs(last.res.path)
        /\ IsPrefixSeq(Place(last.base), Place(last.res.path))

\* the sibling case: base "/i", path "../ie", refused
C1_Witness ==
    /\ last.op = "AbsPath"
    /\ last.base = <<"/", "i">>
    /\ last.path = <<".", ".", "/", "i", "e">>
    /\ last.res.err

(***************************************************************************)
(* The specification of the calls of routes.cleanEmptyDirs: a tree under   *)
(* the images directory, as TestCleanEmptyDirs builds them, and calls of   *)
(* cleanEmptyDirs on a directory of it, on a file and on a missing path.   *)
(***************************************************************************)
\* cfg.ImagesDir of this model
ImagesDir == <<"/", "i">>

In(dir, name) == dir \o <<Separator>> \o name

Dir1 == In(ImagesDir, <<"1">>)
Dir12 == In(Dir1, <<"2">>)
Dir12a == In(Dir12, <<"a">>)
Dir13 == In(Dir1, <<"3">>)
Dir4 == In(ImagesDir, <<"4">>)

TreeDirs == {Dir1, Dir12, Dir12a, Dir13, Dir4}

TreeFiles == {In(Dir12a, <<"x">>), In(Dir1, <<"f">>), In(ImagesDir, <<"r">>)}

\* bytes that were stored before the model starts
OldBytes == [kind |-> "old", img |-> "", q |-> 0]

\* the file system that holds the images directory, the directories D and
\* the files F
Tree(D, F) ==
    [p \in {<<Separator>>, Cwd, ImagesDir} \cup D \cup F |->
        IF p \in F THEN FileEntry(OldBytes) ELSE DirEntry]

\* every entry has its parent directory
Closed(D, F) == \A q \in D \cup F : Dir(q) \in D \cup {ImagesDir}

Trees ==
    {Tree(D, F) : <<D, F>> \in
        {t \in (SUBSET TreeDirs) \X (SUBSET TreeFiles) : Closed(t[1], t[2])}}

PruneBases ==
    {ImagesDir, Dir1, Dir12, Dir4, In(ImagesDir, <<"r">>), In(ImagesDir, <<"9">>)}

InitPrune ==
    /\ fs \in Trees
    /\ last = [op |-> "init"]
    /\ nextId = 0
    /\ procs = <<>>

CallCleanEmptyDirs ==
    /\ \E baseDir \in PruneBases :
           LET r == cleanEmptyDirs(fs, baseDir)
           IN  /\ fs' = r.fs
               /\ last' = [op |-> "cleanEmptyDirs", base |-> baseDir,
                           pre |-> fs, err |-> r.err]
    /\ UNCHANGED <<nextId, procs>>

NextPrune == CallCleanEmptyDirs

SpecPrune == InitPrune /\ [][NextPrune]_vars

Pruned == last.op = "cleanEmptyDirs"

\* C7: after cleanEmptyDirs(baseDir) returned without error no directory
\* strictly beneath baseDir is empty, and every directory beneath baseDir
\* whose subtree held no file is gone, the parents that only held empty
\* directories included.
C7_NoEmptyDirLeft ==
    (Pruned /\ ~last.err) =>
        /\ \A d \in DOMAIN fs :
               (fs[d].dir /\ Under(d, last.base)) => Children(fs, d) # {}
        /\ \A d \in DOMAIN last.pre :
               (last.pre[d].dir /\ Under(d, last.base)
                    /\ FilesIn(last.pre, d) = {}) => d \notin DOMAIN fs

\* a parent that held two empty directories and nothing else was removed
C7_Witness ==
    /\ Pruned /\ ~last.err
    /\ last.base = ImagesDir
    /\ {Dir1, Dir12, Dir12a, Dir13} \subseteq DOMAIN last.pre
    /\ FilesIn(last.pre, Dir1) = {}
    /\ Dir1 \notin DOMAIN fs

\* C8: cleanEmptyDirs(baseDir) removes only directories strictly beneath
\* baseDir that hold no file in their subtree: every file, every directory
\* with a file beneath it, baseDir itself (empty or not) and all that is not
\* beneath baseDir is left as it was, and nothing is created.
C8_PruneFrame ==
    Pruned =>
        /\ DOMAIN fs \subseteq DOMAIN last.pre
        /\ \A p \in DOMAIN last.pre :
               (\/ ~last.pre[p].dir
                \/ FilesIn(last.pre, p) # {}
                \/ p = last.base
                \/ ~Under(p, last.base))
               => (p \in DOMAIN fs /\ fs[p] = last.pre[p])

\* the base directory became empty in the call and is still there, and a
\* file beside a removed directory is still there
C8_Witness ==
    /\ Pruned /\ ~last.err
    /\ last.base = Dir1
    /\ Children(last.pre, Dir1) = {Dir12, Dir13}
    /\ FilesIn(last.pre, Dir1) = {}
    /\ Children(fs, Dir1) = {}
    /\ Dir1 \in DOMAIN fs
    /\ In(ImagesDir, <<"r">>) \in DOMAIN fs

\* C9: a second run of cleanEmptyDirs right after a run changes nothing: the
\* tree after two runs is the tree after one.
C9_PruneIdempotent ==
    Pruned => cleanEmptyDirs(fs, last.base).fs = fs

\* a run that removed directories, so that the second run starts from a
\* tree the first one changed
C9_Witness ==
    /\ Pruned /\ ~last.err
    /\ last.base = ImagesDir
    /\ fs # last.pre
    /\ Dir12a \in DOMAIN last.pre
    /\ Dir12a \notin DOMAIN fs

(***************************************************************************)
(* convert.SaveWebP                                                        *)
(***************************************************************************)
\* the downloaded bytes of this model: a JPEG, a PNG, a text file, and an
\* image the decoder reads and the WebP encoder refuses
DataInputs == {"jpeg", "png", "text", "huge"}

\* imageFromBytes: image.Decode of the bytes
imageFromBytes(data) ==
    IF data = "jpeg" THEN [err |-> FALSE, img |-> "A"]
    ELSE IF data = "png" THEN [err |-> FALSE, img |-> "B"]
    ELSE IF data = "huge" THEN [err |-> FALSE, img |-> "H"]
    ELSE [err |-> TRUE, img |-> ""]

\* webp.Encode of an image at a quality: the bytes it writes, or its error
\* (it writes nothing when it fails)
Encode(img, quality) ==
    IF img = "H" THEN [err |-> TRUE, data |-> NoBytes]
    ELSE [err |-> FALSE, data |-> [kind |-> "webp", img |-> img, q |-> quality]]

\* SaveWebP without the test that nothing exists at dest
SaveWebP_noExistsCheck(f, data, dest, quality) ==
    LET mk == MkdirAll(f, Dir(dest))
    IN  IF mk.err THEN [fs |-> mk.fs, err |-> "unable to create directory"]
        ELSE LET out == Create(mk.fs, dest)
             IN  IF out.err THEN [fs |-> out.fs, err |-> "unable to create"]
                 ELSE LET image == imageFromBytes(data)
                      IN  IF image.err
                          THEN [fs |-> out.fs, err |-> "failed to decode image"]
                          ELSE LET enc == Encode(image.img, quality)
                               IN  IF enc.err
                                   THEN [fs |-> out.fs, err |-> "encode"]
                                   ELSE [fs |-> Write(out.fs, dest, enc.data),
                                         err |-> ""]

\* the file system after the call and the error returned ("" for nil); the
\* deferred Close of the output file changes nothing in the file system
SaveWebP(f, data, dest, quality) ==
    IF PathExists(f, dest) THEN [fs |-> f, err |-> "already exists"]
    ELSE LET dir == Dir(dest)
             mk == MkdirAll(f, dir)
         IN  IF mk.err
             THEN [fs |-> mk.fs, err |-> "unable to create directory"]
             ELSE LET outputFile == Create(mk.fs, dest)
                  IN  IF outputFile.err
                      THEN [fs |-> outputFile.fs, err |-> "unable to create"]
                      ELSE LET image == imageFromBytes(data)
                           IN  IF image.err
                               THEN [fs |-> outputFile.fs,
                                     err |-> "failed to decode image"]
                               ELSE LET enc == Encode(image.img, quality)
                                    IN  IF enc.err
                                        THEN [fs |-> outputFile.fs,
                                              err |-> "encode"]
                                        ELSE [fs |-> Write(outputFile.fs, dest,
                                                           enc.data),
                                              err |-> ""]

(***************************************************************************)
(* The specification of the calls of convert.SaveWebP: a tree, and calls   *)
(* with a destination that is an existing file, an existing directory, a   *)
(* new name in an existing or in a new directory, or a name under a file.  *)
(***************************************************************************)
SaveDests ==
    { In(Dir12a, <<"x">>), In(ImagesDir, <<"r">>), Dir1,
      In(Dir12a, <<"w">>), In(In(ImagesDir, <<"5">>), <<"w">>),
      In(In(ImagesDir, <<"r">>), <<"w">>) }

SaveTrees ==
    {t \in Trees : DOMAIN t \cap {Dir4, Dir13, In(Dir1, <<"f">>)} = {}}

InitSave ==
    /\ fs \in SaveTrees
    /\ last = [op |-> "init"]
    /\ nextId = 0
    /\ procs = <<>>

\* one call on a tree, and a second call on what the first one left
CallSaveWebP ==
    /\ IF last.op = "init" THEN TRUE ELSE last.pre \in SaveTrees
    /\ \E data \in DataInputs, dest \in SaveDests :
           LET r == SaveWebP(fs, data, dest, 90)
           IN  /\ fs' = r.fs
               /\ last' = [op |-> "SaveWebP", data |-> data, dest |-> dest,
                           pre |-> fs, err |-> r.err]
    /\ UNCHANGED <<nextId, procs>>

NextSave == CallSaveWebP

SpecSave == InitSave /\ [][NextSave]_vars

Saved == last.op = "SaveWebP"

\* C4: write-once: when something exists at the destination SaveWebP returns
\* the "already exists" error and what is there is as it was, whatever the
\* destination and the data.
C4_WriteOnce ==
    (Saved /\ Abs(last.dest) \in DOMAIN last.pre) =>
        /\ last.err = "already exists"
        /\ Abs(last.dest) \in DOMAIN fs
        /\ fs[Abs(last.dest)] = last.pre[Abs(last.dest)]

\* a call with an image that decodes, on a file stored before
C4_Witness ==
    /\ Saved
    /\ last.data = "jpeg"
    /\ last.dest = In(Dir12a, <<"x">>)
    /\ last.dest \in DOMAIN last.pre
    /\ last.pre[last.dest] = FileEntry(OldBytes)
    /\ last.err = "already exists"

\* C5: all or nothing: after SaveWebP returned nil the complete encoded file
\* is at the destination, and after it returned a decode or an encode error
\* no file is there.
C5_AllOrNothing ==
    Saved =>
        /\ (last.err = "") =>
               (/\ Abs(last.dest) \in DOMAIN fs
                /\ fs[Abs(last.dest)].data.kind = "webp")
        /\ (last.err \in {"failed to decode image", "encode"}) =>
               Abs(last.dest) \notin DOMAIN fs

(***************************************************************************)
(* checks.IsValidURL and checks.IsValidObjectId                            *)
(***************************************************************************)
LowerLetters ==
    <<"a", "b", "c", "d", "e", "f", "g", "h", "i", "j", "k", "l", "m",
      "n", "o", "p", "q", "r", "s", "t", "u", "v", "w", "x", "y", "z">>

UpperLetters ==
    <<"A", "B", "C", "D", "E", "F", "G", "H", "I", "J", "K", "L", "M",
      "N", "O", "P", "Q", "R", "S", "T", "U", "V", "W", "X", "Y", "Z">>

DecimalDigits == <<"0", "1", "2", "3", "4", "5", "6", "7", "8", "9">>

Range(s) == {s[i] : i \in DOMAIN s}

LetterChars == Range(LowerLetters) \cup Range(UpperLetters)

DigitChars == Range(DecimalDigits)

IsLetter(c) == c \in LetterChars

IsDigit(c) == c \in DigitChars

\* unicode.ToLower of the upper-case letters
LowerOf ==
    [c \in Range(UpperLetters) |->
        LowerLetters[CHOOSE k \in DOMAIN UpperLetters : UpperLetters[k] = c]]

\* strings.ToLower
ToLower(s) ==
    [i \in DOMAIN s |-> IF s[i] \in DOMAIN LowerOf THEN LowerOf[s[i]] ELSE s[i]]

\* the index of the first c in s, 0 when there is none
IndexOf(s, c) ==
    IF c \in Range(s) THEN CHOOSE i \in DOMAIN s : s[i] = c /\ \A j \in 1..(i - 1) : s[j] # c
    ELSE 0

\* the index of the last c in s, 0 when there is none
LastIndexOf(s, c) ==
    IF c \in Range(s) THEN CHOOSE i \in DOMAIN s : s[i] = c /\ \A j \in (i + 1)..Len(s) : s[j] # c
    ELSE 0

\* strings.Cut: the part before the first c (all of s when there is none)
Before(s, c) == IF IndexOf(s, c) = 0 THEN s ELSE SubSeq(s, 1, IndexOf(s, c) - 1)

\* the part from position i on
From(s, i) == SubSeq(s, i, Len(s))

\* net/url getScheme: the letters, digits, + - . in front of the first ':'
\* when a letter starts them; no scheme when another character comes first;
\* an error when the string starts with ':'
RECURSIVE getScheme(_, _)
getScheme(rawURL, i) ==
    IF i > Len(rawURL) THEN [err |-> FALSE, scheme |-> <<>>, rest |-> rawURL]
    ELSE LET c == rawURL[i]
         IN  IF IsLetter(c) THEN getScheme(rawURL, i + 1)
             ELSE IF IsDigit(c) \/ c \in {"+", "-", "."}
             THEN IF i = 1
                  THEN [err |-> FALSE, scheme |-> <<>>, rest |-> rawURL]
                  ELSE getScheme(rawURL, i + 1)
             ELSE IF c = ":"
             THEN IF i = 1
                  THEN [err |-> TRUE, scheme |-> <<>>, rest |-> <<>>]
                  ELSE [err |-> FALSE, scheme |-> SubSeq(rawURL, 1, i - 1),
                        rest |-> From(rawURL, i + 1)]
             ELSE [err |-> FALSE, scheme |-> <<>>, rest |-> rawURL]

\* net/url parseHost, for hosts that are no IP literal: the port after the
\* last ':' is made of digits, and no character of the host is one that
\* must be escaped
ValidHost(host) ==
    /\ \A i \in DOMAIN host : host[i] \notin {" ", "/", "#", "?", "@"}
    /\ LET colon == LastIndexOf(host, ":")
       IN  colon = 0 \/ \A i \in (colon + 1)..Len(host) : IsDigit(host[i])

\* net/url Parse, as far as the error, the scheme and the host go
ParseURL(rawURL) ==
    LET u == Before(rawURL, "#")
        s == getScheme(u, 1)
        scheme == ToLower(s.scheme)
        rest == Before(s.rest, "?")
        noURL == [err |-> TRUE, Scheme |-> <<>>, Host |-> <<>>]
    IN  IF s.err THEN noURL
        ELSE IF ~HasPrefix(rest, <<"/">>) /\ scheme # <<>>
        THEN [err |-> FALSE, Scheme |-> scheme, Host |-> <<>>]
        ELSE IF ~HasPrefix(rest, <<"/">>) /\ ":" \in Range(Before(rest, "/"))
        THEN noURL
        ELSE IF (scheme # <<>> \/ ~HasPrefix(rest, <<"/", "/", "/">>))
                /\ HasPrefix(rest, <<"/", "/">>)
        THEN LET authority == Before(From(rest, 3), "/")
                 host == From(authority, LastIndexOf(authority, "@") + 1)
             IN  IF ValidHost(host)
                 THEN [err |-> FALSE, Scheme |-> scheme, Host |-> host]
                 ELSE noURL
        ELSE [err |-> FALSE, Scheme |-> scheme, Host |-> <<>>]

Http == <<"h", "t", "t", "p">>
Https == <<"h", "t", "t", "p", "s">>

\* IsValidURL that does not ask for a host
IsValidURL_anyHost(urlStr) ==
    LET u == ParseURL(urlStr)
    IN  IF u.err THEN FALSE
        ELSE u.Scheme = Http \/ u.Scheme = Https

\* IsValidURL that takes every scheme
IsValidURL_anyScheme(urlStr) ==
    LET u == ParseURL(urlStr)
    IN  IF u.err THEN FALSE
        ELSE u.Host # <<>>

IsValidURL(urlStr) ==
    LET u == ParseURL(urlStr)
    IN  IF u.err THEN FALSE
        ELSE (u.Scheme = Http \/ u.Scheme = Https) /\ u.Host # <<>>

HexDigits == <<"0", "1", "2", "3", "4", "5", "6", "7", "8", "9",
               "a", "b", "c", "d", "e", "f">>

HexChars == Range(HexDigits) \cup {"A", "B", "C", "D", "E", "F"}

IsHexDigit(c) == c \in HexChars

\* the length of the hexadecimal form of an ObjectID
ObjectIDHexLen == 24

\* IsValidObjectId that looks at the digits and not at the length
IsValidObjectId_anyLength(oid) ==
    \A i \in DOMAIN oid : IsHexDigit(oid[i])

\* primitive.ObjectIDFromHex returns no error: 24 hexadecimal digits
IsValidObjectId(oid) ==
    /\ Len(oid) = ObjectIDHexLen
    /\ \A i \in DOMAIN oid : IsHexDigit(oid[i])

\* n in w lower-case hexadecimal digits
RECURSIVE HexOf(_, _)
HexOf(n, w) ==
    IF w = 0 THEN <<>>
    ELSE HexOf(n \div 16, w - 1) \o <<HexDigits[(n % 16) + 1]>>

\* an identifier that leaves the counter out: every call returns the same
NewObjectIDHex_noCounter(counter) == HexOf(0, 8) \o HexOf(0, 10) \o HexOf(0, 6)

\* primitive.NewObjectID().Hex(): four bytes of time, five bytes of the
\* process and the three bytes of the counter
NewObjectIDHex(counter) == HexOf(0, 8) \o HexOf(0, 10) \o HexOf(counter, 6)

\* fmt.Sprint of an int
RECURSIVE Digits(_)
Digits(n) ==
    IF n < 10 THEN <<DecimalDigits[n + 1]>>
    ELSE Digits(n \div 10) \o <<DecimalDigits[(n % 10) + 1]>>

Sprint(n) == IF n < 0 THEN <<"-">> \o Digits(0 - n) ELSE Digits(n)

\* strings.Trim(s, "/")
RECURSIVE TrimLeft(_)
TrimLeft(s) == IF s # <<>> /\ Head(s) = "/" THEN TrimLeft(Tail(s)) ELSE s

RECURSIVE TrimRight(_)
TrimRight(s) ==
    IF s # <<>> /\ s[Len(s)] = "/" THEN TrimRight(SubSeq(s, 1, Len(s) - 1))
    ELSE s

Trim(s) == TrimRight(TrimLeft(s))

(***************************************************************************)
(* routes.go: the three handlers.  Each takes the file system and the      *)
(* request and returns the file system it leaves and the response.         *)
(***************************************************************************)
\* cfg.BaseURL of this model: "https://w/"
BaseURL == Https \o <<":", "/", "/", "w", "/">>

Response(f, status, msg, body) ==
    [fs |-> f, status |-> status, msg |-> msg, body |-> body]

\* prepImageName: guild/user/charid/<new id>.webp
prepImageName(r, counter) ==
    IF ~IsValidObjectId(r.CharID)
    THEN [err |-> TRUE, name |-> <<>>]
    ELSE LET guild == Sprint(r.Guild)
             user == Sprint(r.User)
             charId == r.CharID
             imageName == NewObjectIDHex(counter) \o <<".", "w", "e", "b", "p">>
         IN  [err |-> FALSE,
              name |-> StringsJoin(<<guild, user, charId, imageName>>, <<"/">>)]

\* handleImageUpload that downloads before it looks at the URL
handleImageUpload_fetchFirst(f, request, resp, counter) ==
    IF request.badJSON
    THEN Response(f, 400, "bad request body", <<>>)
             @@ [fetched |-> FALSE, nextId |-> counter, closed |-> FALSE]
    ELSE IF resp.err \/ resp.StatusCode # 200
    THEN Response(f, 502, "failed to download image", <<>>)
             @@ [fetched |-> TRUE, nextId |-> counter, closed |-> FALSE]
    ELSE Response(f, 400, "invalid image URL", <<>>)
             @@ [fetched |-> TRUE, nextId |-> counter, closed |-> TRUE]

\* handleImageUpload that takes every status from 200 to 299 as a download
handleImageUpload_any2xx(f, request, resp, counter) ==
    IF request.badJSON
    THEN Response(f, 400, "bad request body", <<>>)
             @@ [fetched |-> FALSE, nextId |-> counter, closed |-> FALSE]
    ELSE IF ~IsValidURL(request.ImageURL)
    THEN Response(f, 400, "invalid image URL", <<>>)
             @@ [fetched |-> FALSE, nextId |-> counter, closed |-> FALSE]
    ELSE IF resp.err \/ resp.StatusCode < 200 \/ resp.StatusCode > 299
    THEN Response(f, 502, "failed to download image", <<>>)
             @@ [fetched |-> TRUE, nextId |-> counter, closed |-> FALSE]
    ELSE IF resp.readErr
    THEN Response(f, 500, "read error", <<>>)
             @@ [fetched |-> TRUE, nextId |-> counter, closed |-> TRUE]
    ELSE LET prep == prepImageName(request, counter)
         IN  IF prep.err
             THEN Response(f, 400, "is not a valid character ID", <<>>)
                      @@ [fetched |-> TRUE, nextId |-> counter, closed |-> TRUE]
             ELSE LET saveLoc == Join(<<ImagesDir, prep.name>>)
                      saved == SaveWebP(f, resp.body, saveLoc, 90)
                      webRoot == Trim(BaseURL)
                      url == StringsJoin(<<webRoot, prep.name>>, <<"/">>)
                  IN  IF saved.err # ""
                      THEN Response(saved.fs, 500, saved.err, <<>>)
                               @@ [fetched |-> TRUE, nextId |-> counter + 1, closed |-> TRUE]
                      ELSE Response(saved.fs, 201, "", url)
                               @@ [fetched |-> TRUE, nextId |-> counter + 1, closed |-> TRUE]

\* handleImageUpload that builds the URL from the place of the file on disk
handleImageUpload_leaksLocation(f, request, resp, counter) ==
    IF request.badJSON
    THEN Response(f, 400, "bad request body", <<>>)
             @@ [fetched |-> FALSE, nextId |-> counter, closed |-> FALSE]
    ELSE IF ~IsValidURL(request.ImageURL)
    THEN Response(f, 400, "invalid image URL", <<>>)
             @@ [fetched |-> FALSE, nextId |-> counter, closed |-> FALSE]
    ELSE IF resp.err \/ resp.StatusCode # 200
    THEN Response(f, 502, "failed to download image", <<>>)
             @@ [fetched |-> TRUE, nextId |-> counter, closed |-> FALSE]
    ELSE IF resp.readErr
    THEN Response(f, 500, "read error", <<>>)
             @@ [fetched |-> TRUE, nextId |-> counter, closed |-> TRUE]
    ELSE LET prep == prepImageName(request, counter)
         IN  IF prep.err
             THEN Response(f, 400, "is not a valid character ID", <<>>)
                      @@ [fetched |-> TRUE, nextId |-> counter, closed |-> TRUE]
             ELSE LET saveLoc == Join(<<ImagesDir, prep.name>>)
                      saved == SaveWebP(f, resp.body, saveLoc, 90)
                      webRoot == Trim(BaseURL)
                      url == StringsJoin(<<webRoot, saveLoc>>, <<"/">>)
                  IN  IF saved.err # ""
                      THEN Response(saved.fs, 500, saved.err, <<>>)
                               @@ [fetched |-> TRUE, nextId |-> counter + 1, closed |-> TRUE]
                      ELSE Response(saved.fs, 201, "", url)
                               @@ [fetched |-> TRUE, nextId |-> counter + 1, closed |-> TRUE]

\* resp is what client.Get and the read of the body give when they are
\* reached; counter is the counter of NewObjectID.  fetched tells whether
\* client.Get was called, and closed whether resp.Body.Close() has run when
\* the handler returns (it is deferred after the test of the status).
handleImageUpload(f, request, resp, counter) ==
    IF request.badJSON
    THEN Response(f, 400, "bad request body", <<>>)
             @@ [fetched |-> FALSE, nextId |-> counter, closed |-> FALSE]
    ELSE IF ~IsValidURL(request.ImageURL)
    THEN Response(f, 400, "invalid image URL", <<>>)
             @@ [fetched |-> FALSE, nextId |-> counter, closed |-> FALSE]
    ELSE IF resp.err \/ resp.StatusCode # 200
    THEN Response(f, 502, "failed to download image", <<>>)
             @@ [fetched |-> TRUE, nextId |-> counter, closed |-> FALSE]
    ELSE IF resp.readErr
    THEN Response(f, 500, "read error", <<>>)
             @@ [fetched |-> TRUE, nextId |-> counter, closed |-> TRUE]
    ELSE LET prep == prepImageName(request, counter)
         IN  IF prep.err
             THEN Response(f, 400, "is not a valid character ID", <<>>)
                      @@ [fetched |-> TRUE, nextId |-> counter, closed |-> TRUE]
             ELSE LET saveLoc == Join(<<ImagesDir, prep.name>>)
                      saved == SaveWebP(f, resp.body, saveLoc, 90)
                      webRoot == Trim(BaseURL)
                      url == StringsJoin(<<webRoot, prep.name>>, <<"/">>)
                  IN  IF saved.err # ""
                      THEN Response(saved.fs, 500, saved.err, <<>>)
                               @@ [fetched |-> TRUE, nextId |-> counter + 1, closed |-> TRUE]
                      ELSE Response(saved.fs, 201, "", url)
                               @@ [fetched |-> TRUE, nextId |-> counter + 1, closed |-> TRUE]

\* handleSingleDelete that runs the pass over the empty directories before
\* it answers that nothing is at the path
handleSingleDelete_pruneOnNotFound(f, param) ==
    LET imagePath == TrimPrefix(param, <<"/">>)
        imageLoc == AbsPath(ImagesDir, imagePath)
    IN  IF imageLoc.err THEN Response(f, 400, "is not in", <<>>)
        ELSE IF ~PathExists(f, imageLoc.path)
        THEN Response(cleanEmptyDirs(f, ImagesDir).fs, 400, "Image not found", <<>>)
        ELSE LET rm == Remove(f, imageLoc.path)
             IN  IF rm.err THEN Response(f, 500, "remove failed", <<>>)
                 ELSE LET cleaned == cleanEmptyDirs(rm.fs, ImagesDir)
                      IN  Response(cleaned.fs, 200, "Deleted", imagePath)

\* handleSingleDelete that answers with an error when the pass over the
\* empty directories returns one
handleSingleDelete_pruneErrorFails(f, param) ==
    LET imagePath == TrimPrefix(param, <<"/">>)
        imageLoc == AbsPath(ImagesDir, imagePath)
    IN  IF imageLoc.err THEN Response(f, 400, "is not in", <<>>)
        ELSE IF ~PathExists(f, imageLoc.path)
        THEN Response(f, 400, "Image not found", <<>>)
        ELSE LET rm == Remove(f, imageLoc.path)
             IN  IF rm.err THEN Response(f, 500, "remove failed", <<>>)
                 ELSE LET cleaned == cleanEmptyDirs(rm.fs, ImagesDir)
                      IN  IF cleaned.err
                          THEN Response(cleaned.fs, 500, "clean failed", <<>>)
                          ELSE Response(cleaned.fs, 200, "Deleted", imagePath)

\* handleSingleDelete that leaves out the pass over the empty directories
handleSingleDelete_noPrune(f, param) ==
    LET imagePath == TrimPrefix(param, <<"/">>)
        imageLoc == AbsPath(ImagesDir, imagePath)
    IN  IF imageLoc.err THEN Response(f, 400, "is not in", <<>>)
        ELSE IF ~PathExists(f, imageLoc.path)
        THEN Response(f, 400, "Image not found", <<>>)
        ELSE LET rm == Remove(f, imageLoc.path)
             IN  IF rm.err THEN Response(f, 500, "remove failed", <<>>)
                 ELSE Response(rm.fs, 200, "Deleted", imagePath)

\* handleSingleDelete that joins the path to the images directory and does
\* not test where the result lies
handleSingleDelete_unconfined(f, param) ==
    LET imagePath == TrimPrefix(param, <<"/">>)
        imageLoc == Abs(Join(<<ImagesDir \o <<Separator>> \o imagePath>>))
    IN  IF ~PathExists(f, imageLoc)
        THEN Response(f, 400, "Image not found", <<>>)
        ELSE LET rm == Remove(f, imageLoc)
             IN  IF rm.err THEN Response(f, 500, "remove failed", <<>>)
                 ELSE LET cleaned == cleanEmptyDirs(rm.fs, ImagesDir)
                      IN  Response(cleaned.fs, 200, "Deleted", imagePath)

\* param is the value of the wildcard *imagePath, with its leading slash
handleSingleDelete(f, param) ==
    LET imagePath == TrimPrefix(param, <<"/">>)
        imageLoc == AbsPath(ImagesDir, imagePath)
    IN  IF imageLoc.err THEN Response(f, 400, "is not in", <<>>)
        ELSE IF ~PathExists(f, imageLoc.path)
        THEN Response(f, 400, "Image not found", <<>>)
        ELSE LET rm == Remove(f, imageLoc.path)
             IN  IF rm.err THEN Response(f, 500, "remove failed", <<>>)
                 ELSE LET cleaned == cleanEmptyDirs(rm.fs, ImagesDir)
                      IN  Response(cleaned.fs, 200, "Deleted", imagePath)

\* handleCharacterDelete that leaves the character id out of the path: it
\* removes the directory of the user
handleCharacterDelete_userDir(f, guild, user, charID) ==
    IF ~IsValidObjectId(charID)
    THEN Response(f, 400, "Invalid character ID", <<>>)
    ELSE LET charPath == AbsPath(ImagesDir, Join(<<guild, user>>))
         IN  IF charPath.err THEN Response(f, 400, "is not in", <<>>)
             ELSE IF ~PathExists(f, charPath.path)
             THEN Response(f, 400, "Character directory not found", <<>>)
             ELSE LET rm == RemoveAll(f, charPath.path)
                  IN  IF rm.err THEN Response(f, 500, "remove failed", <<>>)
                      ELSE LET cleaned == cleanEmptyDirs(rm.fs, ImagesDir)
                           IN  Response(cleaned.fs, 200, "Deleted all images",
                                        charID)

handleCharacterDelete(f, guild, user, charID) ==
    IF ~IsValidObjectId(charID)
    THEN Response(f, 400, "Invalid character ID", <<>>)
    ELSE LET charPath == AbsPath(ImagesDir, Join(<<guild, user, charID>>))
         IN  IF charPath.err THEN Response(f, 400, "is not in", <<>>)
             ELSE IF ~PathExists(f, charPath.path)
             THEN Response(f, 400, "Character directory not found", <<>>)
             ELSE LET rm == RemoveAll(f, charPath.path)
                  IN  IF rm.err THEN Response(f, 500, "remove failed", <<>>)
                      ELSE LET cleaned == cleanEmptyDirs(rm.fs, ImagesDir)
                           IN  Response(cleaned.fs, 200, "Deleted all images",
                                        charID)

(***************************************************************************)
(* The service: requests served one after the other, from the tree the     *)
(* images directory holds when the process starts.                         *)
(***************************************************************************)
MaxUploads == 2

\* a character id, and a string that is none (its last character is no
\* hexadecimal digit)
CharA == Rep("a", ObjectIDHexLen)
CharBad == Rep("a", ObjectIDHexLen - 1) \o <<"g">>

CharDir == In(Dir12, CharA)

\* the character ids of the character deletes: the two above, a valid one
\* in upper case, and hexadecimal strings one digit short and one too long
CharUpper == Rep("A", ObjectIDHexLen)
CharShort == Rep("a", ObjectIDHexLen - 1)
CharLong == Rep("a", ObjectIDHexLen + 1)

CharIDInputs == {CharA, CharBad, CharUpper, CharShort, CharLong}

\* a directory beside the images directory whose name starts with its name
Sibling == <<"/", "i", "e">>

\* the trees at the start: guild 1, user 2, character CharA and a stored
\* image, each there or not, and a file in the images directory
ServerTrees ==
    {Tree(t[1] \cup {Sibling}, t[2] \cup {In(Sibling, <<"x">>)}) :
        t \in {t \in (SUBSET {Dir1, Dir12, CharDir})
                         \X (SUBSET {In(CharDir, <<"x">>), In(ImagesDir, <<"r">>)}) :
                  \A q \in t[1] \cup t[2] : Dir(q) \in t[1] \cup {ImagesDir}}}

Colon2Slash == <<":", "/", "/">>

GoodURLs ==
    { Https \o Colon2Slash \o <<"h", "/", "x">>,
      <<"H", "T", "T", "P">> \o Colon2Slash \o <<"h", ":", "8">> }

BadURLs ==
    { <<"f", "t", "p">> \o Colon2Slash \o <<"h", "/", "x">>,
      <<"f", "i", "l", "e">> \o Colon2Slash \o <<"/", "e">>,
      <<"h", "/", "x">>,
      <<>>,
      Https \o Colon2Slash,
      <<"n", "o", " ", "u", "r", "l">> }

URLInputs == GoodURLs \cup BadURLs

UploadRequests ==
    [badJSON : {FALSE}, Guild : {1}, User : {2}, CharID : {CharA, CharBad},
     ImageURL : URLInputs]
    \cup [badJSON : {TRUE}, Guild : {0}, User : {0}, CharID : {<<>>},
          ImageURL : {<<>>}]

NoFetch == [err |-> FALSE, StatusCode |-> 0, readErr |-> FALSE, body |-> ""]

FetchBodies == {"jpeg", "text"}

\* what the download gives: a transport error, a status other than 200
\* (404, and 204 with a body), a body that cannot be read to its end, or a
\* body
FetchOutcomes ==
    {[err |-> TRUE, StatusCode |-> 0, readErr |-> FALSE, body |-> ""],
     [err |-> FALSE, StatusCode |-> 404, readErr |-> FALSE, body |-> "text"],
     [err |-> FALSE, StatusCode |-> 204, readErr |-> FALSE, body |-> "jpeg"],
     [err |-> FALSE, StatusCode |-> 200, readErr |-> TRUE, body |-> ""]}
    \cup [err : {FALSE}, StatusCode : {200}, readErr : {FALSE}, body : FetchBodies]

\* the path of an entry beneath the images directory, as a request names it
RelPath(p) == From(p, Len(AsPrefix(ImagesDir)) + 1)

DeleteParams(f) ==
    {<<"/">> \o RelPath(p) : p \in {q \in DOMAIN f : Under(q, ImagesDir)}}
    \cup { <<"/">>, <<"/", ".">>, <<"/", "1", "/", ".", ".">>, <<"/", "z">>,
           <<"/", ".", ".", "/", "i", "e">>,
           <<"/", ".", ".", "/", "i", "e", "/", "x">>,
           <<"/", "/", "i", "e", "/", "x">> }

RouteParams == {<<"1">>, <<"2">>, <<".", ".">>}

\* the parameters of the character deletes: every guild and user with the
\* valid id, and every id with the guild and the user of the stored images
CharDeleteInputs ==
    (RouteParams \X RouteParams \X {CharA})
    \cup ({<<"1">>} \X {<<"2">>} \X CharIDInputs)

Init ==
    /\ fs \in ServerTrees
    /\ last = [op |-> "init"]
    /\ nextId = 0
    /\ procs = <<>>

Upload ==
    /\ nextId < MaxUploads
    /\ \E request \in UploadRequests :
       \E resp \in (IF ~request.badJSON /\ IsValidURL(request.ImageURL)
                    THEN FetchOutcomes ELSE {NoFetch}) :
       \E r \in {handleImageUpload(fs, request, resp, nextId)} :
           /\ fs' = r.fs
           /\ nextId' = r.nextId
           /\ UNCHANGED procs
           /\ last' = [op |-> "upload", req |-> request, resp |-> resp,
                       pre |-> fs, status |-> r.status, msg |-> r.msg,
                       body |-> r.body, fetched |-> r.fetched,
                       closed |-> r.closed]

SingleDelete ==
    /\ \E param \in DeleteParams(fs) :
       \E r \in {handleSingleDelete(fs, param)} :
           /\ fs' = r.fs
           /\ last' = [op |-> "singleDelete", param |-> param, pre |-> fs,
                       status |-> r.status, msg |-> r.msg, body |-> r.body]
    /\ UNCHANGED <<nextId, procs>>

CharacterDelete ==
    /\ \E in \in CharDeleteInputs :
       \E r \in {handleCharacterDelete(fs, in[1], in[2], in[3])} :
           /\ fs' = r.fs
           /\ last' = [op |-> "characterDelete", guild |-> in[1],
                       user |-> in[2], charID |-> in[3], pre |-> fs,
                       status |-> r.status, msg |-> r.msg, body |-> r.body]
    /\ UNCHANGED <<nextId, procs>>

Next == Upload \/ SingleDelete \/ CharacterDelete

Spec == Init /\ [][Next]_vars

(***************************************************************************)
(* Properties of the service                                               *)
(***************************************************************************)
\* C2: the images directory exists in every reachable state: no upload,
\* single delete (whatever its path: empty, ".", "1/.."), character delete
\* or pass over the empty directories removes it, even when it is empty.
C2_RootAlwaysExists ==
    ImagesDir \in DOMAIN fs /\ fs[ImagesDir].dir

\* the last request was a single delete whose path resolved inside the
\* images directory
SingleDeleteResolved ==
    /\ last.op = "singleDelete"
    /\ ~AbsPath(ImagesDir, TrimPrefix(last.param, <<"/">>)).err

\* the path the last single delete resolved to
Target == AbsPath(ImagesDir, TrimPrefix(last.param, <<"/">>)).path

\* C3: a single delete never removes a directory: when the resolved path
\* is a directory, empty or not, the answer is 400 'Cannot delete
\* directory' and the directory is still there afterwards.
C3_NeverRemovesDirectory ==
    (/\ SingleDeleteResolved
     /\ Target \in DOMAIN last.pre
     /\ last.pre[Target].dir)
    => /\ last.status = 400
       /\ last.msg = "Cannot delete directory"
       /\ Target \in DOMAIN fs
       /\ fs[Target].dir

\* the last single delete named a file at <images>/g/u/c/<name> that was
\* the only entry beneath <images>/g: g held u alone, u held c alone and c
\* held the file alone
SoleFileDeleted ==
    /\ SingleDeleteResolved
    /\ Target \in DOMAIN last.pre
    /\ ~last.pre[Target].dir
    /\ Dir(Dir(Dir(Dir(Target)))) = ImagesDir
    /\ Dir(Dir(Dir(Target))) # ImagesDir
    /\ {q \in DOMAIN last.pre : Under(q, Dir(Dir(Dir(Target))))}
           = {Dir(Dir(Target)), Dir(Target), Target}

\* C6: a single delete of a file that is the only entry under
\* <images>/g/u/c removes the file and the directories g/u/c, g/u and g
\* that it leaves empty, and the images directory remains.
C6_SoleFileCleanup ==
    SoleFileDeleted =>
        /\ last.status = 200
        /\ {Target, Dir(Target), Dir(Dir(Target)), Dir(Dir(Dir(Target)))}
               \cap DOMAIN fs = {}
        /\ ImagesDir \in DOMAIN fs
        /\ fs[ImagesDir].dir
        /\ \A q \in DOMAIN last.pre :
               (~last.pre[q].dir /\ q # Target)
                   => (q \in DOMAIN fs /\ fs[q] = last.pre[q])

C6_Witness ==
    /\ SoleFileDeleted
    /\ last.status = 200
    /\ Dir(Dir(Dir(Target))) \notin DOMAIN fs
    /\ ImagesDir \in DOMAIN fs

\* the last request was an upload with a body that parsed and an image_url
\* that is no http or https URL with a host
InvalidURLUpload ==
    /\ last.op = "upload"
    /\ ~last.req.badJSON
    /\ last.req.ImageURL \in BadURLs

\* C10: an upload whose image_url is no URL with the scheme http or https
\* and a host (ftp, file, no scheme, the empty string) is answered with 400
\* 'invalid image URL' before any download is started, and nothing is
\* created in the images directory.
C10_InvalidURLRejected ==
    InvalidURLUpload =>
        /\ last.status = 400
        /\ last.msg = "invalid image URL"
        /\ ~last.fetched
        /\ last.resp = NoFetch
        /\ fs = last.pre

C10_Witness ==
    /\ InvalidURLUpload
    /\ last.req.ImageURL = <<"f", "t", "p">> \o Colon2Slash \o <<"h", "/", "x">>
    /\ last.status = 400
    /\ ~last.fetched
    /\ fs = last.pre

\* the last request was an upload whose body parsed, with an image_url
\* that is an http or https URL with a host
ValidURLUpload ==
    /\ last.op = "upload"
    /\ ~last.req.badJSON
    /\ last.req.ImageURL \in GoodURLs

DownloadFailed ==
    /\ ValidURLUpload
    /\ last.resp.err \/ last.resp.StatusCode # 200

\* C12: an upload whose download ends in a transport error or in a status
\* other than 200 is answered with 502 'failed to download image' and the
\* tree under the images directory is unchanged.
C12_FetchErrorReported ==
    DownloadFailed =>
        /\ last.status = 502
        /\ last.msg = "failed to download image"
        /\ fs = last.pre

\* a status of the 2xx range other than 200, with an image as its body
C12_Witness ==
    /\ DownloadFailed
    /\ ~last.resp.err
    /\ last.resp.StatusCode = 204
    /\ last.req.CharID = CharA
    /\ last.status = 502
    /\ fs = last.pre

\* cfg.BaseURL without the slashes around it
WebRoot == Https \o Colon2Slash \o <<"w">>

\* the last request was an upload that was answered with 201
Uploaded == last.op = "upload" /\ last.status = 201

\* the path of the stored image relative to the images directory, as the
\* answer of the last upload gives it after the base URL
ReturnedPath == TrimPrefix(last.body, WebRoot \o <<"/">>)

DotWebp == <<".", "w", "e", "b", "p">>

\* C13: a successful upload for the character id C returns a relative path
\* of exactly two components: C, then a new identifier of 24 lower-case
\* hexadecimal digits with the extension .webp; the guild and the user are
\* no part of it.
C13_TwoComponentPath ==
    Uploaded =>
        /\ Len(Split(ReturnedPath)) = 2
        /\ Split(ReturnedPath)[1] = last.req.CharID
        /\ Len(Split(ReturnedPath)[2]) = ObjectIDHexLen + Len(DotWebp)
        /\ HasSuffix(Split(ReturnedPath)[2], DotWebp)
        /\ \A i \in 1..ObjectIDHexLen :
               Split(ReturnedPath)[2][i] \in Range(HexDigits)

\* sub occurs in s
Contains(s, sub) ==
    \E i \in 1..(Len(s) - Len(sub) + 1) : SubSeq(s, i, i + Len(sub) - 1) = sub

\* the files the last request created
NewFiles == {q \in DOMAIN fs \ DOMAIN last.pre : ~fs[q].dir}

\* C14: the URL a successful upload returns is the base URL without the
\* slashes around it, a slash, and the path of the stored file relative to
\* the images directory; that file exists when the answer is given, and the
\* URL does not contain the location of the images directory.
C14_URLOfStoredFile ==
    Uploaded =>
        /\ HasPrefix(last.body, WebRoot \o <<"/">>)
        /\ NewFiles = {In(ImagesDir, ReturnedPath)}
        /\ fs[In(ImagesDir, ReturnedPath)].data.kind = "webp"
        /\ ~Contains(last.body, ImagesDir)

C14_Witness ==
    /\ Uploaded
    /\ NewFiles # {}
    /\ \A q \in NewFiles : last.body = WebRoot \o <<"/">> \o RelPath(q)

\* the path the last character delete resolved its parameters to
CharPath == AbsPath(ImagesDir, Join(<<last.guild, last.user, last.charID>>))

\* the last request was a character delete with a valid character id whose
\* path resolved inside the images directory
CharacterDeleteResolved ==
    /\ last.op = "characterDelete"
    /\ IsValidObjectId(last.charID)
    /\ ~CharPath.err

\* C15: a single delete or a character delete whose resolved path does not
\* exist is answered with 400 and the not-found error, and the tree under
\* the images directory is unchanged: nothing is removed, and no directory
\* is pruned.
C15_NotFoundChangesNothing ==
    /\ (SingleDeleteResolved /\ Target \notin DOMAIN last.pre) =>
           /\ last.status = 400
           /\ last.msg = "Image not found"
           /\ fs = last.pre
    /\ (CharacterDeleteResolved /\ CharPath.path \notin DOMAIN last.pre) =>
           /\ last.status = 400
           /\ last.msg = "Character directory not found"
           /\ fs = last.pre

\* a single delete of a missing path while the tree holds a directory
\* without a file
C15_Witness ==
    /\ SingleDeleteResolved
    /\ Target \notin DOMAIN last.pre
    /\ \E q \in DOMAIN last.pre :
           Under(q, ImagesDir) /\ last.pre[q].dir /\ FilesIn(last.pre, q) = {}
    /\ last.status = 400
    /\ fs = last.pre

\* id is not made of exactly 24 hexadecimal digits, upper or lower case
NotAnIdentifier(id) ==
    \/ Len(id) # 24
    \/ \E i \in DOMAIN id :
           id[i] \notin {"0", "1", "2", "3", "4", "5", "6", "7", "8", "9",
                         "a", "b", "c", "d", "e", "f",
                         "A", "B", "C", "D", "E", "F"}

\* C16: a character delete whose character id is not exactly 24
\* hexadecimal digits (23 or 25 of them, or a character that is none) is
\* answered with 400 'Invalid character ID' and the tree under the images
\* directory is unchanged; an id of 24 digits, in upper or lower case, is
\* not refused as invalid.
C16_InvalidCharIDOnDelete ==
    last.op = "characterDelete" =>
        /\ NotAnIdentifier(last.charID) =>
               /\ last.status = 400
               /\ last.msg = "Invalid character ID"
               /\ fs = last.pre
        /\ ~NotAnIdentifier(last.charID) => last.msg # "Invalid character ID"

\* an id one digit short, for the directory of a stored image
C16_Witness ==
    /\ last.op = "characterDelete"
    /\ last.charID = CharShort
    /\ last.guild = <<"1">>
    /\ last.user = <<"2">>
    /\ CharDir \in DOMAIN last.pre
    /\ last.status = 400
    /\ last.msg = "Invalid character ID"
    /\ fs = last.pre

\* the last request was a character delete that was answered with 200
CharacterDeleted == CharacterDeleteResolved /\ last.status = 200

\* C17: after a successful character delete nothing exists at the resolved
\* character path or beneath it, and every file that was outside that
\* subtree before the request is still there with the same content.
C17_SubtreeRemovedOnly ==
    CharacterDeleted =>
        /\ \A q \in DOMAIN fs : q # CharPath.path /\ ~Under(q, CharPath.path)
        /\ \A q \in DOMAIN last.pre :
               (/\ ~last.pre[q].dir
                /\ q # CharPath.path
                /\ ~Under(q, CharPath.path))
               => (q \in DOMAIN fs /\ fs[q] = last.pre[q])

\* a character directory with an image in it, and a file of the images
\* directory outside it
C17_Witness ==
    /\ CharacterDeleted
    /\ CharPath.path = CharDir
    /\ FilesIn(last.pre, CharDir) # {}
    /\ In(ImagesDir, <<"r">>) \in DOMAIN last.pre
    /\ In(ImagesDir, <<"r">>) \in DOMAIN fs
    /\ CharDir \notin DOMAIN fs

\* os.Remove of the last single delete returned no error
SingleRemoveSucceeded ==
    /\ SingleDeleteResolved
    /\ Target \in DOMAIN last.pre
    /\ ~Remove(last.pre, Target).err

\* os.RemoveAll of the last character delete returned no error
CharacterRemoveSucceeded ==
    /\ CharacterDeleteResolved
    /\ CharPath.path \in DOMAIN last.pre
    /\ ~RemoveAll(last.pre, CharPath.path).err

\* C18: an error of the pass over the empty directories never makes a
\* delete fail: whenever the removal of a single delete or of a character
\* delete succeeded, the answer is 200, also when cleanEmptyDirs returned
\* an error.
C18_PruneErrorNotEscalated ==
    /\ SingleRemoveSucceeded => last.status = 200
    /\ CharacterRemoveSucceeded => last.status = 200

\* a removal after which cleanEmptyDirs returns an error
C18_Witness ==
    /\ SingleRemoveSucceeded
    /\ cleanEmptyDirs(Remove(last.pre, Target).fs, ImagesDir).err
    /\ last.status = 200

\* C19: every path checks.AbsPath accepts is a strict descendant of the
\* base: an input whose place is the base itself (the empty path, ".",
\* "i/..") gets an error.
C19_StrictDescendant ==
    (last.op = "AbsPath" /\ ~last.res.err) =>
        /\ IsPrefixSeq(Place(last.base), Place(last.res.path))
        /\ Place(last.res.path) # Place(last.base)

\* the last request was a single delete that was answered with 200
SingleDeleted == last.op = "singleDelete" /\ last.status = 200

\* the files the last request removed
RemovedFiles == {q \in DOMAIN last.pre \ DOMAIN fs : ~last.pre[q].dir}

\* C20: a successful single delete removes exactly one file: every other
\* file that was under the images directory before is still there with the
\* same content, and the other entries it removes are directories that
\* hold no file.
C20_ExactlyOneFileRemoved ==
    SingleDeleted =>
        /\ Cardinality(RemovedFiles) = 1
        /\ \A q \in DOMAIN last.pre \cap DOMAIN fs : fs[q] = last.pre[q]
        /\ \A q \in DOMAIN last.pre \ DOMAIN fs :
               last.pre[q].dir => FilesIn(last.pre, q) \subseteq RemovedFiles

(***************************************************************************)
(* Requests served at the same time.  gin serves each request in its own   *)
(* goroutine, so the calls of the handlers on the file system interleave.  *)
(* A handler is cut at its calls of the os package: each step below is one *)
(* such call with the code that follows it up to the next one.  A request  *)
(* is a record: its position pc, its inputs, the locals of the code, and   *)
(* what it answered.                                                       *)
(***************************************************************************)
\* a call of cleanEmptyDirs that is under way: the directory it cleans, the
\* directories of its listing that the loop has not finished, and its
\* position: before os.ReadDir(baseDir) ("list"), in the recursive call
\* ("wait"), before os.ReadDir(fullPath) ("relist"), before os.Remove
\* ("remove")
Frame(base, todo, at) == [base |-> base, todo |-> todo, at |-> at]

\* the entries the loop does not skip
DirsOf(entries) == SelectSeq(entries, LAMBDA e : e.isDir)

\* fullPath of the entry the loop of a frame is at
fullPathOf(frame) == Join(<<frame.base, Head(frame.todo).name>>)

\* the loop of the top frame goes on: to the recursive call on its next
\* directory, or, at the end of the listing, back to the caller, which
\* lists the directory again
descend(stk) ==
    IF stk[Len(stk)].todo = <<>>
    THEN IF Len(stk) = 1 THEN <<>>
         ELSE [SubSeq(stk, 1, Len(stk) - 1) EXCEPT ![Len(stk) - 1].at = "relist"]
    ELSE [stk EXCEPT ![Len(stk)].at = "wait"]
             \o <<Frame(fullPathOf(stk[Len(stk)]), <<>>, "list")>>

PruneResult(f, stk, failed) ==
    [fs |-> f, stk |-> stk, err |-> failed # "", failed |-> failed]

\* cleanEmptyDirs that removes with os.RemoveAll the directory it found
\* empty
pruneStep_removesAll(f, stk) ==
    IF stk[Len(stk)].at = "list"
    THEN LET listed == ReadDir(f, stk[Len(stk)].base)
         IN  IF listed.err THEN PruneResult(f, <<>>, "list")
             ELSE PruneResult(f,
                      descend([stk EXCEPT ![Len(stk)].todo = DirsOf(listed.entries)]),
                      "")
    ELSE IF stk[Len(stk)].at = "relist"
    THEN LET subEntries == ReadDir(f, fullPathOf(stk[Len(stk)]))
         IN  IF subEntries.err THEN PruneResult(f, <<>>, "list")
             ELSE IF Len(subEntries.entries) = 0
             THEN PruneResult(f, [stk EXCEPT ![Len(stk)].at = "remove"], "")
             ELSE PruneResult(f,
                      descend([stk EXCEPT ![Len(stk)].todo = Tail(@)]), "")
    ELSE LET rm == RemoveAll(f, fullPathOf(stk[Len(stk)]))
         IN  IF rm.err THEN PruneResult(f, <<>>, "remove")
             ELSE PruneResult(rm.fs,
                      descend([stk EXCEPT ![Len(stk)].todo = Tail(@)]), "")

\* cleanEmptyDirs that skips a directory it cannot list and goes on with
\* the next entry
pruneStep_skipsUnlistable(f, stk) ==
    IF stk[Len(stk)].at = "list"
    THEN LET listed == ReadDir(f, stk[Len(stk)].base)
         IN  IF listed.err
             THEN PruneResult(f,
                      descend([stk EXCEPT ![Len(stk)].todo = <<>>]), "")
             ELSE PruneResult(f,
                      descend([stk EXCEPT ![Len(stk)].todo = DirsOf(listed.entries)]),
                      "")
    ELSE IF stk[Len(stk)].at = "relist"
    THEN LET subEntries == ReadDir(f, fullPathOf(stk[Len(stk)]))
         IN  IF subEntries.err
             THEN PruneResult(f,
                      descend([stk EXCEPT ![Len(stk)].todo = Tail(@)]), "")
             ELSE IF Len(subEntries.entries) = 0
             THEN PruneResult(f, [stk EXCEPT ![Len(stk)].at = "remove"], "")
             ELSE PruneResult(f,
                      descend([stk EXCEPT ![Len(stk)].todo = Tail(@)]), "")
    ELSE LET rm == Remove(f, fullPathOf(stk[Len(stk)]))
         IN  IF rm.err THEN PruneResult(f, <<>>, "remove")
             ELSE PruneResult(rm.fs,
                      descend([stk EXCEPT ![Len(stk)].todo = Tail(@)]), "")

\* one call of the os package by cleanEmptyDirs: the file system and the
\* stack of calls it leaves; an error ends every call of the stack
pruneStep(f, stk) ==
    IF stk[Len(stk)].at = "list"
    THEN \* entries, err := os.ReadDir(baseDir)
         LET listed == ReadDir(f, stk[Len(stk)].base)
         IN  IF listed.err THEN PruneResult(f, <<>>, "list")
             ELSE PruneResult(f,
                      descend([stk EXCEPT ![Len(stk)].todo = DirsOf(listed.entries)]),
                      "")
    ELSE IF stk[Len(stk)].at = "relist"
    THEN \* subEntries, err := os.ReadDir(fullPath)
         LET subEntries == ReadDir(f, fullPathOf(stk[Len(stk)]))
         IN  IF subEntries.err THEN PruneResult(f, <<>>, "list")
             ELSE IF Len(subEntries.entries) = 0
             THEN PruneResult(f, [stk EXCEPT ![Len(stk)].at = "remove"], "")
             ELSE PruneResult(f,
                      descend([stk EXCEPT ![Len(stk)].todo = Tail(@)]), "")
    ELSE \* os.Remove(fullPath)
         LET rm == Remove(f, fullPathOf(stk[Len(stk)]))
         IN  IF rm.err THEN PruneResult(f, <<>>, "remove")
             ELSE PruneResult(rm.fs,
                      descend([stk EXCEPT ![Len(stk)].todo = Tail(@)]), "")

\* a request, or a call of SaveWebP, before its first step
Request(kind, pc) ==
    [kind |-> kind, pc |-> pc, param |-> <<>>, loc |-> <<>>, req |-> <<>>,
     resp |-> <<>>, dest |-> <<>>, data |-> "", at |-> <<>>, todo |-> <<>>,
     stk |-> <<>>, status |-> 0, msg |-> "", err |-> "", failed |-> "",
     failedAt |-> <<>>, gone |-> {}]

\* c.AbortWithStatusJSON and c.JSON: the handler has answered
answered(pr, status, msg) ==
    [pr EXCEPT !.pc = "done", !.status = status, !.msg = msg]

\* SaveWebP has returned err ("" for nil); handleImageUpload answers 500
\* with the error, or 201
saved(pr, err) ==
    IF pr.kind = "upload"
    THEN [answered(pr, IF err = "" THEN 201 ELSE 500, err) EXCEPT !.err = err]
    ELSE [pr EXCEPT !.pc = "done", !.err = err]

\* os.MkdirAll has made the first directory of todo, or found it made
mkdirDone(pr) ==
    [pr EXCEPT !.todo = Tail(@),
               !.pc = IF Tail(pr.todo) = <<>> THEN "create" ELSE "mkdir"]

\* one call of the os package by SaveWebP.  os.MkdirAll is the calls the
\* library makes: os.Stat of the directory and then of each parent up to
\* one that exists ("mkstat"), and from there down os.Mkdir of each
\* directory that was missing ("mkdir"), with os.Lstat of it when os.Mkdir
\* fails ("lstat").
saveStep(f, pr) ==
    IF pr.pc = "exists"
    THEN \* checks.PathExists(dest)
         IF PathExists(f, pr.dest)
         THEN [fs |-> f, pr |-> saved(pr, "already exists")]
         ELSE [fs |-> f,
               pr |-> [pr EXCEPT !.pc = "mkstat", !.at = Abs(Dir(pr.dest)),
                                 !.todo = <<>>]]
    ELSE IF pr.pc = "mkstat"
    THEN IF pr.at \in DOMAIN f
         THEN IF ~f[pr.at].dir
              THEN [fs |-> f, pr |-> saved(pr, "unable to create directory")]
              ELSE [fs |-> f,
                    pr |-> [pr EXCEPT !.pc = IF pr.todo = <<>> THEN "create"
                                             ELSE "mkdir"]]
         ELSE [fs |-> f,
               pr |-> [pr EXCEPT !.todo = <<pr.at>> \o @, !.at = Dir(pr.at)]]
    ELSE IF pr.pc = "mkdir"
    THEN IF /\ Dir(Head(pr.todo)) \in DOMAIN f
            /\ f[Dir(Head(pr.todo))].dir
            /\ Head(pr.todo) \notin DOMAIN f
         THEN [fs |-> [q \in DOMAIN f \cup {Head(pr.todo)} |->
                          IF q \in DOMAIN f THEN f[q] ELSE DirEntry],
               pr |-> mkdirDone(pr)]
         ELSE [fs |-> f, pr |-> [pr EXCEPT !.pc = "lstat"]]
    ELSE IF pr.pc = "lstat"
    THEN IF Head(pr.todo) \in DOMAIN f /\ f[Head(pr.todo)].dir
         THEN [fs |-> f, pr |-> mkdirDone(pr)]
         ELSE [fs |-> f, pr |-> saved(pr, "unable to create directory")]
    ELSE IF pr.pc = "create"
    THEN \* outputFile, err := os.Create(dest)
         LET outputFile == Create(f, pr.dest)
         IN  IF outputFile.err
             THEN [fs |-> f, pr |-> saved(pr, "unable to create")]
             ELSE [fs |-> outputFile.fs, pr |-> [pr EXCEPT !.pc = "write"]]
    ELSE \* imageFromBytes and webp.Encode, which writes to the open file
         LET image == imageFromBytes(pr.data)
             enc == Encode(image.img, 90)
         IN  IF image.err
             THEN [fs |-> f, pr |-> saved(pr, "failed to decode image")]
             ELSE IF enc.err THEN [fs |-> f, pr |-> saved(pr, "encode")]
             ELSE [fs |-> IF Abs(pr.dest) \in DOMAIN f /\ ~f[Abs(pr.dest)].dir
                          THEN Write(f, pr.dest, enc.data) ELSE f,
                   pr |-> saved(pr, "")]

\* handleImageUpload up to its call of SaveWebP: nothing of it touches the
\* file system; prepImageName takes the next value of the counter
uploadStart(pr, counter) ==
    IF pr.req.badJSON THEN answered(pr, 400, "bad request body")
    ELSE IF ~IsValidURL(pr.req.ImageURL)
    THEN answered(pr, 400, "invalid image URL")
    ELSE IF pr.resp.err \/ pr.resp.StatusCode # 200
    THEN answered(pr, 502, "failed to download image")
    ELSE IF pr.resp.readErr THEN answered(pr, 500, "read error")
    ELSE IF prepImageName(pr.req, counter).err
    THEN answered(pr, 400, "is not a valid character ID")
    ELSE [pr EXCEPT !.pc = "exists", !.data = pr.resp.body,
              !.dest = Join(<<ImagesDir, prepImageName(pr.req, counter).name>>)]

\* handleSingleDelete up to checks.PathExists(imageLoc)
deleteStat(f, pr) ==
    LET imagePath == TrimPrefix(pr.param, <<"/">>)
        imageLoc == AbsPath(ImagesDir, imagePath)
    IN  IF imageLoc.err
        THEN [fs |-> f, pr |-> answered(pr, 400, "is not in")]
        ELSE IF ~PathExists(f, imageLoc.path)
        THEN [fs |-> f, pr |-> answered(pr, 400, "Image not found")]
        ELSE [fs |-> f,
              pr |-> [pr EXCEPT !.pc = "remove", !.loc = imageLoc.path]]

\* os.Remove(imageLoc), and on to cleanEmptyDirs(cfg.ImagesDir)
deleteRemove(f, pr) ==
    LET rm == Remove(f, pr.loc)
    IN  IF rm.err
        THEN [fs |-> f, pr |-> answered(pr, 500, "remove failed")]
        ELSE [fs |-> rm.fs,
              pr |-> [pr EXCEPT !.pc = "prune",
                                !.stk = <<Frame(ImagesDir, <<>>, "list")>>]]

\* the request after the step r of cleanEmptyDirs on the file system f:
\* the error of cleanEmptyDirs is logged, and the answer is 200.  gone
\* keeps what the pass has removed, with the files that were there, and
\* failedAt the path of the call that failed.
pruned(f, pr, r) ==
    [fs |-> r.fs,
     pr |-> [pr EXCEPT
                !.stk = r.stk,
                !.failed = r.failed,
                !.failedAt = IF r.failed = "" THEN @
                             ELSE IF pr.stk[Len(pr.stk)].at = "list"
                             THEN pr.stk[Len(pr.stk)].base
                             ELSE fullPathOf(pr.stk[Len(pr.stk)]),
                !.gone = @ \cup {[path |-> q, files |-> FilesIn(f, q)] :
                                   q \in DOMAIN f \ DOMAIN r.fs},
                !.pc = IF r.stk = <<>> THEN "done" ELSE @,
                !.status = IF r.stk = <<>> THEN 200 ELSE @,
                !.msg = IF r.stk = <<>> THEN "Deleted" ELSE @]]

(***************************************************************************)
(* The service with two requests in flight: each is a single delete of a   *)
(* stored image or a valid upload for the character CharA, and the steps   *)
(* of the two interleave in every order.                                   *)
(***************************************************************************)
Procs == {1, 2}

FileX == In(CharDir, <<"x">>)
FileY == In(CharDir, <<"y">>)

\* the trees at the start: the images directory empty, with an empty
\* directory, and with the directory of the character and one or two images
ServeTrees ==
    { Tree({}, {}), Tree({Dir1}, {}),
      Tree({Dir1, Dir12, CharDir}, {FileX}),
      Tree({Dir1, Dir12, CharDir}, {FileX, FileY}) }

ValidUpload ==
    [Request("upload", "start") EXCEPT
        !.req = [badJSON |-> FALSE, Guild |-> 1, User |-> 2, CharID |-> CharA,
                 ImageURL |-> Https \o Colon2Slash \o <<"h", "/", "x">>],
        !.resp = [err |-> FALSE, StatusCode |-> 200, readErr |-> FALSE,
                  body |-> "jpeg"]]

DeleteOf(file) ==
    [Request("delete", "stat") EXCEPT !.param = <<"/">> \o RelPath(file)]

\* DELETE /image/ names the images directory itself
DeleteRoot == [Request("delete", "stat") EXCEPT !.param = <<"/">>]

ServeRequests == {ValidUpload, DeleteOf(FileX), DeleteOf(FileY), DeleteRoot}

InitServe ==
    /\ fs \in ServeTrees
    /\ last = [op |-> "serve", pre |-> fs]
    /\ nextId = 0
    /\ procs \in [Procs -> ServeRequests]

\* the request p is of the kind and at one of the positions
At(p, kind, pcs) == procs[p].kind \in kind /\ procs[p].pc \in pcs

UploadStart ==
    \E p \in DOMAIN procs :
        /\ At(p, {"upload"}, {"start"})
        /\ procs' = [procs EXCEPT ![p] = uploadStart(procs[p], nextId)]
        /\ nextId' = IF procs'[p].pc = "exists" THEN nextId + 1 ELSE nextId
        /\ UNCHANGED <<fs, last>>

SaveExists ==
    \E p \in DOMAIN procs :
        /\ At(p, {"upload", "save"}, {"exists"})
        /\ \E r \in {saveStep(fs, procs[p])} :
               fs' = r.fs /\ procs' = [procs EXCEPT ![p] = r.pr]
        /\ UNCHANGED <<last, nextId>>

SaveMkdirAll ==
    \E p \in DOMAIN procs :
        /\ At(p, {"upload", "save"}, {"mkstat", "mkdir", "lstat"})
        /\ \E r \in {saveStep(fs, procs[p])} :
               fs' = r.fs /\ procs' = [procs EXCEPT ![p] = r.pr]
        /\ UNCHANGED <<last, nextId>>

SaveCreate ==
    \E p \in DOMAIN procs :
        /\ At(p, {"upload", "save"}, {"create"})
        /\ \E r \in {saveStep(fs, procs[p])} :
               fs' = r.fs /\ procs' = [procs EXCEPT ![p] = r.pr]
        /\ UNCHANGED <<last, nextId>>

SaveWrite ==
    \E p \in DOMAIN procs :
        /\ At(p, {"upload", "save"}, {"write"})
        /\ \E r \in {saveStep(fs, procs[p])} :
               fs' = r.fs /\ procs' = [procs EXCEPT ![p] = r.pr]
        /\ UNCHANGED <<last, nextId>>

DeleteStat ==
    \E p \in DOMAIN procs :
        /\ At(p, {"delete"}, {"stat"})
        /\ \E r \in {deleteStat(fs, procs[p])} :
               fs' = r.fs /\ procs' = [procs EXCEPT ![p] = r.pr]
        /\ UNCHANGED <<last, nextId>>

DeleteRemove ==
    \E p \in DOMAIN procs :
        /\ At(p, {"delete"}, {"remove"})
        /\ \E r \in {deleteRemove(fs, procs[p])} :
               fs' = r.fs /\ procs' = [procs EXCEPT ![p] = r.pr]
        /\ UNCHANGED <<last, nextId>>

DeletePrune ==
    \E p \in DOMAIN procs :
        /\ At(p, {"delete"}, {"prune"})
        /\ \E step \in {pruneStep(fs, procs[p].stk)} :
           \E r \in {pruned(fs, procs[p], step)} :
               fs' = r.fs /\ procs' = [procs EXCEPT ![p] = r.pr]
        /\ UNCHANGED <<last, nextId>>

NextServe ==
    \/ UploadStart \/ SaveExists \/ SaveMkdirAll \/ SaveCreate \/ SaveWrite
    \/ DeleteStat \/ DeleteRemove \/ DeletePrune

SpecServe == InitServe /\ [][NextServe]_vars

\* the requests have answered
Done(p) == procs[p].pc = "done"

(***************************************************************************)
(* Properties of the requests served at the same time                      *)
(***************************************************************************)
Serving == DOMAIN procs = Procs

\* the two requests are single deletes of one path, and a file was there
\* when they arrived
SameFileDeletes ==
    /\ Serving
    /\ \A p \in Procs : procs[p].kind = "delete"
    /\ procs[1].param = procs[2].param
    /\ Join(<<ImagesDir, procs[1].param>>) \in DOMAIN last.pre

\* C21: when two single deletes of the same existing file are served at the
\* same time, in every interleaving one answers 200 and the other answers
\* 400 "Image not found"; no other failure is reported.
C21_OneDeleteWins ==
    (SameFileDeletes /\ Done(1) /\ Done(2)) =>
        \E p \in Procs : \E q \in Procs \ {p} :
            /\ procs[p].status = 200
            /\ procs[q].status = 400
            /\ procs[q].msg = "Image not found"

(***************************************************************************)
(* Two calls of convert.SaveWebP at the same time, with destinations in a  *)
(* directory that exists and in one that does not.                         *)
(***************************************************************************)
RaceDests == {In(Dir1, <<"w">>), In(In(ImagesDir, <<"5">>), <<"w">>)}

RaceData == {"jpeg", "png", "text"}

SaveCalls ==
    {[Request("save", "exists") EXCEPT !.dest = dest, !.data = data] :
        dest \in RaceDests, data \in RaceData}

InitSaveRace ==
    /\ fs \in {Tree({}, {}), Tree({Dir1}, {})}
    /\ last = [op |-> "serve", pre |-> fs]
    /\ nextId = 0
    /\ procs \in [Procs -> SaveCalls]

NextSaveRace == SaveExists \/ SaveMkdirAll \/ SaveCreate \/ SaveWrite

SpecSaveRace == InitSaveRace /\ [][NextSaveRace]_vars

\* the two calls have one destination
SameDest ==
    /\ Serving
    /\ \A p \in Procs : procs[p].kind = "save"
    /\ procs[1].dest = procs[2].dest

\* the bytes a call that returned nil has written
Stored(pr) == FileEntry(Encode(imageFromBytes(pr.data).img, 90).data)

\* C22: of two calls of SaveWebP with one destination at most one returns
\* nil, in every interleaving, and the file a call that returned nil has
\* stored is never truncated or overwritten by the other call.
C22_WriteOnceUnderRace ==
    SameDest =>
        /\ ~(\A p \in Procs : Done(p) /\ procs[p].err = "")
        /\ \A p \in Procs :
               (Done(p) /\ procs[p].err = "") =>
                   /\ procs[p].dest \in DOMAIN fs
                   /\ fs[procs[p].dest] = Stored(procs[p])

\* the two requests are uploads (valid ones, for the character CharA)
TwoUploads == Serving /\ \A p \in Procs : procs[p].kind = "upload"

\* C23: two valid uploads for one character served at the same time both
\* answer 201 and leave two different files in the directory of the
\* character, each with its own image, in every interleaving of their
\* steps (existence test, the calls of MkdirAll, creation, write).
C23_TwoUploadsTwoFiles ==
    (TwoUploads /\ Done(1) /\ Done(2)) =>
        /\ procs[1].dest # procs[2].dest
        /\ \A p \in Procs :
               /\ procs[p].status = 201
               /\ Dir(procs[p].dest) = CharDir
               /\ procs[p].dest \in DOMAIN fs
               /\ fs[procs[p].dest] = Stored(procs[p])

\* both uploads have answered, and the directories of the character were
\* made by them
C23_Witness ==
    /\ TwoUploads /\ Done(1) /\ Done(2)
    /\ last.pre = Tree({}, {})
    /\ \A p \in Procs : procs[p].status = 201
    /\ Cardinality({q \in DOMAIN fs : Dir(q) = CharDir}) = 2

(***************************************************************************)
(* primitive.NewObjectID (routes.go, prepImageName): twelve bytes, of      *)
(* which four are the seconds of the clock, five are fixed for the process *)
(* and three are the low bytes of a 32-bit counter that every call         *)
(* increments atomically, so that the calls of one process are ordered.    *)
(* The specification runs calls, alone or many in a row, and keeps the     *)
(* identifier of one earlier call to compare the later ones with.          *)
(***************************************************************************)
MaxBatches == 3
MaxSeconds == 1

\* the three bytes of the counter: nextId is the low three bytes of the
\* 32-bit counter, which are all an identifier takes of it
CounterMod == 2 ^ 24

\* an identifier whose counter has two bytes
NewObjectIDAt_twoByteCounter(sec, counter) ==
    HexOf(sec, 8) \o HexOf(0, 10) \o HexOf(counter % (2 ^ 16), 6)

\* the identifier of the call that found the clock at sec and left the
\* counter at counter
NewObjectIDAt(sec, counter) ==
    HexOf(sec, 8) \o HexOf(0, 10) \o HexOf(counter % CounterMod, 6)

\* the counter starts at a random value
StartCounters == {0, 5, CounterMod - 2, CounterMod - 1}

\* the numbers of calls made in a row
BatchSizes == {1, 2, CounterMod \div 2, CounterMod - 1}

NoMark == [sec |-> 0, at |-> 0, id |-> <<>>]

InitIds ==
    /\ fs = EmptyFS
    /\ procs = <<>>
    /\ nextId \in StartCounters
    /\ last = [op |-> "ids", sec |-> 0, at |-> 0, batches |-> 0, id |-> <<>>,
               mark |-> NoMark]

\* k calls in a row within the second; last.id is what the last of them
\* returned and last.at its number among the calls of the second
NewObjectID ==
    /\ last.batches < MaxBatches
    /\ \E k \in BatchSizes :
           /\ nextId' = (nextId + k) % CounterMod
           /\ last' = [last EXCEPT !.at = @ + k, !.batches = @ + 1,
                          !.id = NewObjectIDAt(last.sec, (nextId + k) % CounterMod)]
    /\ UNCHANGED <<fs, procs>>

\* the identifier last returned is the one later ones are compared with
Remember ==
    /\ last.at > 0
    /\ last.mark = NoMark
    /\ last' = [last EXCEPT !.mark = [sec |-> last.sec, at |-> last.at,
                                      id |-> last.id]]
    /\ UNCHANGED <<fs, nextId, procs>>

\* the clock reaches the next second
Tick ==
    /\ last.sec < MaxSeconds
    /\ last' = [last EXCEPT !.sec = @ + 1, !.at = 0, !.batches = 0, !.id = <<>>]
    /\ UNCHANGED <<fs, nextId, procs>>

NextIds == NewObjectID \/ Remember \/ Tick

SpecIds == InitIds /\ [][NextIds]_vars

\* a call of the second of the remembered one, made after it
LaterInSecond ==
    /\ last.op = "ids"
    /\ last.mark # NoMark
    /\ last.mark.sec = last.sec
    /\ last.at > last.mark.at

\* C24 as stated: two calls within one second never return the same
\* identifier, however many calls are made in that second.
C24_NoRepeatWithinSecond ==
    LaterInSecond => last.id # last.mark.id

\* C24: two calls within one second return different identifiers when
\* fewer than 2^24 calls lie between them, wherever the counter started
\* and also when it wraps between the two.
C24_NoRepeatWithin2Pow24 ==
    (LaterInSecond /\ last.at - last.mark.at < CounterMod) =>
        last.id # last.mark.id

\* the counter wrapped between the two calls, and 2^24 - 1 calls apart the
\* identifiers still differ
C24_Witness ==
    /\ LaterInSecond
    /\ last.at - last.mark.at = CounterMod - 1
    /\ last.id # last.mark.id
    /\ nextId % CounterMod < CounterMod - 1

\* the frame of the pass of request p that makes the next call
TopFrame(p) == procs[p].stk[Len(procs[p].stk)]

\* the next step of request p is a call of os.ReadDir by cleanEmptyDirs,
\* and it fails: the directory is not there or is no directory
ListFails(p) ==
    /\ At(p, {"delete"}, {"prune"})
    /\ TopFrame(p).at \in {"list", "relist"}
    /\ ReadDir(fs, IF TopFrame(p).at = "list" THEN TopFrame(p).base
                   ELSE fullPathOf(TopFrame(p))).err

\* C25: the step of cleanEmptyDirs whose listing fails returns the error
\* from every call under way: no call of os.Remove follows it, and the file
\* system is left as the removals made before have left it.
C25_StopsAtFailedListing ==
    [][\A p \in DOMAIN procs :
           (ListFails(p) /\ procs'[p] # procs[p]) =>
               /\ procs'[p].failed = "list"
               /\ procs'[p].stk = <<>>
               /\ Done(p)'
               /\ fs' = fs]_vars

\* a pass has removed a directory and then failed on a directory that the
\* pass of the other request had removed after this one had listed it
C25_Witness ==
    /\ Serving
    /\ \E p \in Procs : \E q \in Procs \ {p} :
           /\ procs[p].failed = "list"
           /\ procs[p].gone # {}
           /\ procs[q].gone # {}
           /\ Done(p)
           /\ \A g \in procs[p].gone : g.path \notin DOMAIN fs

(***************************************************************************)
(* The requests with inputs of every shape: guilds and users that are      *)
(* negative, zero and large, character ids that are paths, paths and route *)
(* parameters with "..", served one after the other from the trees of the  *)
(* service.  last.n counts the requests.                                   *)
(***************************************************************************)
MaxRequests == 1

\* a string of the length of an identifier that climbs out of a directory
CharClimb == <<".", ".", "/", ".", ".", "/", "i", "e">> \o Rep("a", ObjectIDHexLen - 8)

AnyUploadRequests ==
    [badJSON : {FALSE}, Guild : {-1, 12}, User : {-7, 0},
     CharID : {CharA, CharUpper, CharClimb, <<".", ".">>},
     ImageURL : {Https \o Colon2Slash \o <<"h", "/", "x">>,
                 <<"f", "i", "l", "e">> \o Colon2Slash \o <<"/", "i", "e", "/", "x">>}]

AnyFetchOutcomes ==
    [err : {FALSE}, StatusCode : {200}, readErr : {FALSE}, body : {"jpeg"}]

AnyDeleteParams(f) ==
    DeleteParams(f)
    \cup { <<"/", "1", "/", ".", ".", "/", ".", ".", "/", "i", "e", "/", "x">>,
           <<"/", ".", ".">>, <<"/", ".", ".", "/", "e">>,
           <<"/", "/", "e">>, <<"/", ".", ".", "/", ".", ".">> }

AnyRouteParams == RouteParams \cup {<<".">>, <<"i", "e">>, <<".", ".", "/", "i", "e">>}

AnyCharIDs == {CharA, CharUpper, CharClimb, <<".", ".">>, <<"x">>}

\* the parameters of the character deletes: every guild and user with a
\* valid id, and every id with the guild and the user of the stored images
AnyCharDeleteInputs ==
    (AnyRouteParams \X AnyRouteParams \X {CharA})
    \cup ({<<"1">>} \X {<<"2">>} \X AnyCharIDs)

InitConfine ==
    /\ fs \in ServerTrees
    /\ last = [op |-> "init", n |-> 0]
    /\ nextId = 0
    /\ procs = <<>>

AnyUpload ==
    /\ last.n < MaxRequests
    /\ \E request \in AnyUploadRequests :
       \E resp \in (IF IsValidURL(request.ImageURL)
                    THEN AnyFetchOutcomes ELSE {NoFetch}) :
       \E r \in {handleImageUpload(fs, request, resp, nextId)} :
           /\ fs' = r.fs
           /\ nextId' = r.nextId
           /\ last' = [op |-> "upload", req |-> request, resp |-> resp,
                       pre |-> fs, status |-> r.status, msg |-> r.msg,
                       body |-> r.body, fetched |-> r.fetched,
                       closed |-> r.closed,
                       n |-> last.n + 1]
    /\ UNCHANGED procs

AnySingleDelete ==
    /\ last.n < MaxRequests
    /\ \E param \in AnyDeleteParams(fs) :
       \E r \in {handleSingleDelete(fs, param)} :
           /\ fs' = r.fs
           /\ last' = [op |-> "singleDelete", param |-> param, pre |-> fs,
                       status |-> r.status, msg |-> r.msg, body |-> r.body,
                       n |-> last.n + 1]
    /\ UNCHANGED <<nextId, procs>>

AnyCharacterDelete ==
    /\ last.n < MaxRequests
    /\ \E in \in AnyCharDeleteInputs :
       \E r \in {handleCharacterDelete(fs, in[1], in[2], in[3])} :
           /\ fs' = r.fs
           /\ last' = [op |-> "characterDelete", guild |-> in[1],
                       user |-> in[2], charID |-> in[3], pre |-> fs,
                       status |-> r.status, msg |-> r.msg, body |-> r.body,
                       n |-> last.n + 1]
    /\ UNCHANGED <<nextId, procs>>

NextConfine == AnyUpload \/ AnySingleDelete \/ AnyCharacterDelete

SpecConfine == InitConfine /\ [][NextConfine]_vars

\* the last step was a request to one of the three routes
Requested == last.op \in {"upload", "singleDelete", "characterDelete"}

\* q is neither the images directory nor beneath it
Outside(q) == q # ImagesDir /\ ~Under(q, ImagesDir)

\* C26: no request creates, changes or removes an entry outside the images
\* directory: whatever the guild, the user, the character id and the URL of
\* an upload, and whatever the path or the route parameters of a delete
\* (".." included), the entries outside are after the request what they
\* were before it.
C26_NothingOutsideTouched ==
    Requested =>
        \A q \in DOMAIN fs \cup DOMAIN last.pre :
            Outside(q) =>
                /\ q \in DOMAIN fs
                /\ q \in DOMAIN last.pre
                /\ fs[q] = last.pre[q]

\* an upload with a negative guild has stored its file, beneath the images
\* directory, with the directory beside it in place
C26_Witness ==
    /\ Uploaded
    /\ last.req.Guild < 0
    /\ NewFiles # {}
    /\ \A q \in NewFiles : Under(q, ImagesDir)
    /\ In(Sibling, <<"x">>) \in DOMAIN fs

\* request p is an upload and the other request is the single delete of a
\* stored image
UploadBesideDelete(p) ==
    /\ Serving
    /\ procs[p].kind = "upload"
    /\ \E q \in Procs \ {p} :
           procs[q].kind = "delete" /\ procs[q].param # DeleteRoot.param

\* C27: a valid upload served while a delete runs its pass over the empty
\* directories answers 201 and its file is stored, in every interleaving of
\* the ReadDir and Remove calls of the pass with the MkdirAll and Create
\* calls of SaveWebP.
C27_UploadSurvivesPrune ==
    \A p \in DOMAIN procs :
        (UploadBesideDelete(p) /\ Done(p)) =>
            /\ procs[p].status = 201
            /\ procs[p].dest \in DOMAIN fs

\* C28: in every interleaving of uploads with passes over the empty
\* directories, what a pass removes is never a file and never a directory
\* that holds a file when it is removed, and the file of an upload that
\* answered 201 is stored with its bytes.
C28_PruneKeepsFiles ==
    \A p \in DOMAIN procs :
        /\ \A g \in procs[p].gone : g.files = {}
        /\ (procs[p].kind = "upload" /\ Done(p) /\ procs[p].status = 201) =>
               /\ procs[p].dest \in DOMAIN fs
               /\ fs[procs[p].dest] = Stored(procs[p])

\* the pass found the directory of the character empty, the upload created
\* its file there, and os.Remove of the directory failed: the directory is
\* in place and the file is stored
C28_Witness ==
    /\ Serving
    /\ \E p \in Procs : \E q \in Procs \ {p} :
           /\ procs[p].failed = "remove"
           /\ procs[p].failedAt = CharDir
           /\ procs[q].kind = "upload"
           /\ procs[q].status = 201
           /\ Dir(procs[q].dest) = CharDir
           /\ CharDir \in DOMAIN fs
           /\ fs[procs[q].dest] = Stored(procs[q])

\* the last request was an upload that was answered with an error
UploadFailed == last.op = "upload" /\ last.status # 201

\* C29: an upload that fails, at whatever step (request body, URL,
\* download, character id, decoding, encoding, creation of the file),
\* leaves the file system as it was before the request: no new directory
\* and no new file.
C29_FailedUploadLeavesTree ==
    UploadFailed => fs = last.pre

\* the download of the last upload returned a response, of whatever status
GotResponse == last.op = "upload" /\ last.fetched /\ ~last.resp.err

\* C30: when client.Get returned a response, with whatever status, the body
\* of the response is closed when handleImageUpload returns.
C30_BodyClosed ==
    GotResponse => last.closed

====
